---- MODULE Spec2Model ----
(***************************************************************************)
(* Model of steel_construction_scraper.py (class SteelConstructionScraper).*)
(*                                                                         *)
(* Python strings are modelled as sequences of one-character strings, so   *)
(* that lower(), the `in` substring test, re.sub and slicing are computed  *)
(* character by character as the interpreter computes them.                *)
(***************************************************************************)
EXTENDS Integers, Sequences, FiniteSets, TLC

VARIABLES
    \* ---- one run of run_test_collection (and the runs before it) ----
    pc,            \* position in run_test_collection / download_and_analyze_pdf
    run,           \* number of the current invocation of the program
    url_i,         \* index of the `for url in self.test_urls` loop
    all_projects,  \* run_test_collection: all_projects
    proc_i,        \* index i of `enumerate(all_projects[:3])`
    bids_data,     \* self.bids_data
    fs,            \* the files of the output tree steel_construction_data/
    \* ---- get_page_safely ----
    fstate,        \* position in get_page_safely
    url,           \* its argument url
    retries,       \* its argument retries
    attempt,       \* its loop variable
    response,      \* its return value (None, or the response content)
    \* ---- histories (what a test harness would record) ----
    fetchLog,      \* time.sleep / session.get calls of the current get_page_safely call
    phaseLog,      \* phases entered by the current run, in order
    procLog,       \* candidates handed to download_and_analyze_pdf by the current run
    failedLog,     \* candidates of the current run whose download returned None
    rawLog,        \* raw-document writes of the current run, with what extraction raised
    saved,         \* files written by save_results in the current run, with content
    saveCalls,     \* invocations of save_results in the current run
    overwritten,   \* files of fs that a write of the current run replaced
    saveTs,        \* the clock readings at which earlier runs saved their files
    \* ---- pure functions applied to one input ----
    input,
    output,
    step

vars ==
    << pc, run, url_i, all_projects, proc_i, bids_data, fs,
       fstate, url, retries, attempt, response,
       fetchLog, phaseLog, procLog, failedLog, rawLog, saved, saveCalls, overwritten, saveTs,
       input, output, step >>

runVars ==
    << pc, run, url_i, all_projects, proc_i, bids_data, fs,
       phaseLog, procLog, failedLog, rawLog, saved, saveCalls, overwritten, saveTs >>

fetchVars ==
    << fstate, url, retries, attempt, response, fetchLog >>

pureVars ==
    << input, output, step >>

None ==
    "None"

----------------------------------------------------------------------------
(* Characters and strings *)

Uppers ==
    << "A","B","C","D","E","F","G","H","I","J","K","L","M",
       "N","O","P","Q","R","S","T","U","V","W","X","Y","Z" >>

Lowers ==
    << "a","b","c","d","e","f","g","h","i","j","k","l","m",
       "n","o","p","q","r","s","t","u","v","w","x","y","z" >>

Digits ==
    { "0","1","2","3","4","5","6","7","8","9" }

Range(s) ==
    { s[i] : i \in DOMAIN s }

\* the lower-case letter of every upper-case letter
LowerOf ==
    [ c \in Range(Uppers) |-> Lowers[CHOOSE i \in DOMAIN Uppers : Uppers[i] = c] ]

\* str.lower() on one character
lower_char(c) ==
    IF c \in DOMAIN LowerOf THEN LowerOf[c] ELSE c

\* str.lower()
lower(s) ==
    [ i \in DOMAIN s |-> lower_char(s[i]) ]

\* Python's `sub in s` for strings
Contains(sub, s) ==
    \E i \in 0 .. (Len(s) - Len(sub)) : SubSeq(s, i + 1, i + Len(sub)) = sub

WordChars ==
    Range(Uppers) \cup Range(Lowers) \cup Digits \cup { "_" }

\* regex class \w (letters, digits, underscore)
IsWord(c) ==
    c \in WordChars

\* regex class \s
IsSpace(c) ==
    c \in { " ", "\t", "\n" }

\* concatenation of a sequence of strings
RECURSIVE Concat(_)
Concat(ss) ==
    IF ss = << >> THEN << >> ELSE Head(ss) \o Concat(Tail(ss))

\* all sequences over S of length 0..n
SeqsUpTo(S, n) ==
    UNION { [ 1 .. k -> S ] : k \in 0 .. n }

----------------------------------------------------------------------------
(* Link Filter: is_steel_project, identify_category *)

steel_keywords ==
    { << "s","t","e","e","l" >>,
      << "p","r","e","c","a","s","t" >>,
      << "c","o","n","c","r","e","t","e" >>,
      << "f","o","u","n","d","a","t","i","o","n" >>,
      << "s","t","r","u","c","t","u","r","a","l" >>,
      << "p","a","r","k","i","n","g" >>,
      << "s","t","a","d","i","u","m" >>,
      << "r","e","s","i","d","e","n","c","e" >>,
      << "a","c","a","d","e","m","i","c" >>,
      << "b","i","d"," ","t","a","b" >> }

\* mutant: the name is not lower-cased before the keyword test
is_steel_project_case_sensitive(project_name) ==
    \E keyword \in steel_keywords : Contains(keyword, project_name)

is_steel_project(project_name) ==
    LET name_lower == lower(project_name)
    IN  \E keyword \in steel_keywords : Contains(keyword, name_lower)

identify_category(project_name) ==
    LET name_lower == lower(project_name)
    IN  IF Contains(<< "s","t","e","e","l" >>, name_lower)
           \/ Contains(<< "s","t","r","u","c","t","u","r","a","l" >>, name_lower)
        THEN "structural_steel"
        ELSE IF Contains(<< "p","r","e","c","a","s","t" >>, name_lower)
        THEN "precast_concrete"
        ELSE IF Contains(<< "f","o","u","n","d","a","t","i","o","n" >>, name_lower)
                \/ Contains(<< "p","i","l","e" >>, name_lower)
        THEN "deep_foundations"
        ELSE IF Contains(<< "c","o","n","c","r","e","t","e" >>, name_lower)
                \/ Contains(<< "c","a","s","t" >>, name_lower)
        THEN "cast_in_place_concrete"
        ELSE "mixed_steel"

\* urljoin(page_url, href), kept as the pair it is computed from
urljoin(page_url, href) ==
    [ base |-> page_url.base, ref |-> href ]

\* the dictionary `project` built in the loop for a link that passed the test
project_of_link(page_url, link) ==
    [ name     |-> link.text,
      url      |-> urljoin(page_url, link.href),
      category |-> identify_category(link.text),
      source   |-> page_url ]

\* find_steel_projects after a successful fetch: the loop over pdf_links
\* appends, in page order, a project for every link whose text passes
\* is_steel_project (project.name is the link's text)
projects_of_page(page_url, pdf_links) ==
    SelectSeq([ k \in DOMAIN pdf_links |-> project_of_link(page_url, pdf_links[k]) ],
              LAMBDA project : is_steel_project(project.name))

----------------------------------------------------------------------------
(* Document Processor: clean_filename *)

FilenameLimit ==
    50

\* re.sub(r'[^\w\s-]', '', text)
strip_special(text) ==
    SelectSeq(text, LAMBDA c : IsWord(c) \/ IsSpace(c) \/ c = "-")

\* re.sub(r'\s+', '_', clean): every maximal run of whitespace becomes one "_"
\* (the last character of a run is replaced, the ones before it are dropped)
collapse_space(clean) ==
    LET replaced == [ i \in DOMAIN clean |->
                        IF ~IsSpace(clean[i]) THEN clean[i]
                        ELSE IF i < Len(clean) /\ IsSpace(clean[i + 1]) THEN ""
                        ELSE "_" ]
    IN  SelectSeq(replaced, LAMBDA c : c # "")

\* clean[:n]
Slice(s, n) ==
    SubSeq(s, 1, IF Len(s) < n THEN Len(s) ELSE n)

\* mutant: the result is not cut to 50 characters
clean_filename_untruncated(text) ==
    collapse_space(strip_special(text))

clean_filename(text) ==
    Slice(collapse_space(strip_special(text)), FilenameLimit)

----------------------------------------------------------------------------
(* Document Processor: the two extraction lists *)

AmountLimit ==
    10

BidderLimit ==
    5

\* all orders in which the elements of a finite set can be listed
Orderings(S) ==
    { f \in [ 1 .. Cardinality(S) -> S ] : Range(f) = S }

\* mutant: the first matches are kept without de-duplication
bidders_found_with_duplicates(contractors) ==
    { Slice(contractors, BidderLimit) }

\* list(set(contractors[:5])): the order a set is listed in is not defined,
\* so every order is a possible value
bidders_found(contractors) ==
    Orderings(Range(Slice(contractors, BidderLimit)))

\* amounts[:10]
bid_amounts(amounts) ==
    Slice(amounts, AmountLimit)

----------------------------------------------------------------------------
(* The environment: the network, the documents it serves, the wall clock *)

\* bound: number of PDF links on the listing page
MaxLinks ==
    4

\* bound: invocations of the program, one after the other, on the same output tree
MaxRuns ==
    2

\* bound: readings of the wall clock, to the second, are 0 .. MaxTime
MaxTime ==
    1

\* bound: retry counts a caller may pass to get_page_safely are 0 .. MaxRetries
MaxRetries ==
    4

PageUrl ==
    [ base |-> "https://facilities.charlotte.edu", ref |-> "awards-bid-results" ]

\* no url: get_page_safely has not been called
NoUrl ==
    [ base |-> "", ref |-> "" ]

\* the return value None of get_page_safely; a response is << content >>
NoResponse ==
    << >>

test_urls ==
    << PageUrl >>

\* the default of the parameter `retries`
DefaultRetries ==
    3

\* `all_projects[:3]`
ProcessLimit ==
    3

\* the anchors a listing page can carry whose href ends in .pdf: two documents
\* whose link texts differ in one punctuation character (so in category, but
\* not in sanitized filename), and one that is no steel project
PdfLinks ==
    { [ text |-> << "P","r","e","c","a","s","t"," ","S","t","a","d","i","u","m" >>,
        href |-> "a.pdf" ],
      [ text |-> << "P","r","e","/","c","a","s","t"," ","S","t","a","d","i","u","m" >>,
        href |-> "b.pdf" ],
      [ text |-> << "L","i","b","r","a","r","y" >>,
        href |-> "c.pdf" ] }

\* soup.find_all('a', href=...) of a page: its PDF links in document order
Pages ==
    SeqsUpTo(PdfLinks, MaxLinks)

\* clean_filename(text) + '.pdf' tabulated over the link texts that can occur
filenames ==
    [ text \in { link.text : link \in PdfLinks } |->
         clean_filename(text) \o << ".","p","d","f" >> ]

\* what a served document yields under PyPDF2: an error raised while it is
\* opened or read, or a text with its regex matches in document order
Docs ==
    { [ error       |-> None,
        amounts     |-> << "$1,234.56", "$987" >>,
        contractors |-> << "Acme Construction Inc", "Acme Construction Inc" >> ],
      [ error       |-> "PdfReadError",
        amounts     |-> << >>,
        contractors |-> << >> ] }

\* the content a successful GET of `u` can return
Contents(u) ==
    IF u = PageUrl THEN Pages ELSE Docs

\* the exceptions of an attempt: session.get raises, or raise_for_status does
FetchErrors ==
    { "ConnectionError", "HTTPError" }

----------------------------------------------------------------------------
(* Fetcher: get_page_safely(url, retries) *)

\* entry of get_page_safely
Call(u, r) ==
    /\ fstate' = "loop"
    /\ url' = u
    /\ retries' = r
    /\ attempt' = 0
    /\ response' = NoResponse
    /\ fetchLog' = << >>

\* the caller has taken the return value: the call's frame is gone
FetchReturn ==
    /\ fstate' = "idle"
    /\ url' = NoUrl
    /\ retries' = DefaultRetries
    /\ attempt' = 0
    /\ response' = NoResponse
    /\ fetchLog' = << >>

\* mutant: `return None` is not under the `if`: no attempt after the first
LastAttempt_always ==
    TRUE

\* `if attempt == retries - 1`
LastAttempt ==
    attempt = retries - 1

\* `for attempt in range(retries)`: the next attempt starts with time.sleep(2);
\* when the range is exhausted (retries = 0) the function returns None
FetchLoop ==
    /\ fstate = "loop"
    /\ IF attempt < retries
       THEN /\ fetchLog' = Append(fetchLog, "sleep")
            /\ fstate' = "slept"
            /\ UNCHANGED response
       ELSE /\ fstate' = "returned"
            /\ response' = NoResponse
            /\ UNCHANGED fetchLog
    /\ UNCHANGED << url, retries, attempt >>
    /\ UNCHANGED << runVars, pureVars >>

\* session.get + raise_for_status: return the response, or catch the exception
\* e, log the warning and either go on with the next attempt or return None
\* after the last one
FetchGet ==
    /\ fstate = "slept"
    /\ fetchLog' = Append(fetchLog, "get")
    /\ \E e \in FetchErrors \cup { None } :
          IF e = None
          THEN /\ \E content \in Contents(url) : response' = << content >>
               /\ fstate' = "returned"
               /\ UNCHANGED attempt
          ELSE /\ response' = NoResponse
               /\ IF LastAttempt
                  THEN fstate' = "returned" /\ UNCHANGED attempt
                  ELSE fstate' = "loop" /\ attempt' = attempt + 1
    /\ UNCHANGED << url, retries >>
    /\ UNCHANGED << runVars, pureVars >>

----------------------------------------------------------------------------
(* Output tree: steel_construction_data/{raw_documents,processed_data,reports} *)

NoTs ==
    -1

\* output_dir / "raw_documents" / filename
raw_path(filename) ==
    [ dir |-> "raw_documents", stem |-> filename, ts |-> NoTs ]

\* mutant: the result files carry no timestamp in their names
data_path_without_timestamp(dir, stem, timestamp) ==
    [ dir |-> dir, stem |-> stem, ts |-> NoTs ]

\* output_dir / dir / f"{stem}{timestamp}..."
data_path(dir, stem, timestamp) ==
    [ dir |-> dir, stem |-> stem, ts |-> timestamp ]

csv_file(timestamp) ==
    data_path("processed_data",
              << "s","t","e","e","l","_","b","i","d","s","_",".","c","s","v" >>,
              timestamp)

json_file(timestamp) ==
    data_path("processed_data",
              << "s","t","e","e","l","_","b","i","d","s","_",".","j","s","o","n" >>,
              timestamp)

summary_file(timestamp) ==
    data_path("reports",
              << "s","u","m","m","a","r","y","_",".","j","s","o","n" >>,
              timestamp)

\* the files of `paths` that open(..., 'w') finds already there
Replaced(paths) ==
    paths \cap fs

----------------------------------------------------------------------------
(* Document Processor: download_and_analyze_pdf, after the download *)

\* clean_filename(project['name']) + '.pdf'
pdf_filename(project) ==
    filenames[project.name]

\* lines 139-147: the record before extraction
new_bid_data(project) ==
    [ project_name     |-> project.name,
      category         |-> project.category,
      pdf_file         |-> pdf_filename(project),
      source_url       |-> project.url,
      bidders_found    |-> << >>,
      bid_amounts      |-> << >>,
      extraction_error |-> None ]

\* mutant: the error is raised after the amounts were stored in the record
analyze_error_after_amounts(bid_data, doc, bidders) ==
    IF doc.error # None
    THEN [ bid_data EXCEPT !.extraction_error = doc.error,
                           !.bid_amounts = << "$0" >> ]
    ELSE [ bid_data EXCEPT !.bid_amounts = bid_amounts(doc.amounts),
                           !.bidders_found = bidders ]

\* lines 150-172: the try block. Every statement that can raise (import, open,
\* PdfReader, extract_text) comes before the first assignment to the record.
analyze(bid_data, doc, bidders) ==
    IF doc.error # None
    THEN [ bid_data EXCEPT !.extraction_error = doc.error ]
    ELSE [ bid_data EXCEPT !.bid_amounts = bid_amounts(doc.amounts),
                           !.bidders_found = bidders ]

----------------------------------------------------------------------------
(* Result Aggregator: save_results *)

\* the loop `for bid in self.bids_data`: summary['categories']
RECURSIVE count_categories(_, _)
count_categories(bids, categories) ==
    IF bids = << >> THEN categories
    ELSE LET cat == Head(bids).category
             n   == IF cat \in DOMAIN categories THEN categories[cat] ELSE 0
         IN  count_categories(
                 Tail(bids),
                 [ c \in DOMAIN categories \cup { cat } |->
                       IF c = cat THEN n + 1 ELSE categories[c] ])

EmptyMap ==
    [ c \in { } |-> 0 ]

\* mutant: the files are written for an empty list too
has_records_always(bids) ==
    TRUE

\* `if self.bids_data:`
has_records(bids) ==
    bids # << >>

\* what save_results writes, in order, for the list `bids` at `timestamp`
files_to_save(bids, timestamp) ==
    IF has_records(bids)
    THEN << [ path |-> csv_file(timestamp),  kind |-> "csv",  at |-> timestamp,
              content |-> bids ],
            [ path |-> json_file(timestamp), kind |-> "json", at |-> timestamp,
              content |-> bids ],
            [ path    |-> summary_file(timestamp),
              kind    |-> "summary",
              at      |-> timestamp,
              content |-> [ total_projects |-> Len(bids),
                            categories     |-> count_categories(bids, EmptyMap),
                            files_created  |-> << csv_file(timestamp),
                                                  json_file(timestamp) >> ] ] >>
    ELSE << >>

----------------------------------------------------------------------------
(* run_test_collection *)

\* mutant: every candidate found is processed
sample_all(projects) ==
    projects

\* all_projects[:3]
sample(projects) ==
    Slice(projects, ProcessLimit)

\* a freshly started program: __init__ has run, nothing was fetched
FreshRun ==
    /\ pc = "start"
    /\ url_i = 1
    /\ all_projects = << >>
    /\ proc_i = 1
    /\ bids_data = << >>
    /\ phaseLog = << >>
    /\ procLog = << >>
    /\ failedLog = << >>
    /\ rawLog = << >>
    /\ saved = << >>
    /\ saveCalls = 0
    /\ overwritten = { }

FetchIdle ==
    /\ fstate = "idle"
    /\ url = NoUrl
    /\ retries = DefaultRetries
    /\ attempt = 0
    /\ response = NoResponse
    /\ fetchLog = << >>

PureIdle ==
    /\ input = << >>
    /\ output = << >>
    /\ step = "idle"

Init ==
    /\ FreshRun
    /\ run = 1
    /\ fs = { }
    /\ saveTs = { }
    /\ FetchIdle
    /\ PureIdle

\* run_test_collection is entered: DISCOVER begins
RunStart ==
    /\ pc = "start"
    /\ pc' = "discover"
    /\ phaseLog' = Append(phaseLog, "DISCOVER")
    /\ UNCHANGED << run, url_i, all_projects, proc_i, bids_data, fs,
                    procLog, failedLog, rawLog, saved, saveCalls, overwritten, saveTs >>
    /\ UNCHANGED << fetchVars, pureVars >>

\* `for url in self.test_urls`: find_steel_projects(url) calls get_page_safely;
\* after the last url PROCESS begins
DiscoverLoop ==
    /\ pc = "discover"
    /\ IF url_i <= Len(test_urls)
       THEN /\ Call(test_urls[url_i], DefaultRetries)
            /\ pc' = "page_fetch"
            /\ UNCHANGED phaseLog
       ELSE /\ pc' = "process"
            /\ phaseLog' = Append(phaseLog, "PROCESS")
            /\ UNCHANGED fetchVars
    /\ UNCHANGED << run, url_i, all_projects, proc_i, bids_data, fs,
                    procLog, failedLog, rawLog, saved, saveCalls, overwritten, saveTs >>
    /\ UNCHANGED pureVars

\* find_steel_projects after get_page_safely returned, and all_projects.extend
PageFetched ==
    /\ pc = "page_fetch"
    /\ fstate = "returned"
    /\ all_projects' = all_projects \o
                       ( IF response = NoResponse
                         THEN << >>
                         ELSE projects_of_page(test_urls[url_i], response[1]) )
    /\ url_i' = url_i + 1
    /\ pc' = "discover"
    /\ FetchReturn
    /\ UNCHANGED << run, proc_i, bids_data, fs, phaseLog,
                    procLog, failedLog, rawLog, saved, saveCalls, overwritten, saveTs >>
    /\ UNCHANGED pureVars

\* `for i, project in enumerate(all_projects[:3])`: download_and_analyze_pdf
\* calls get_page_safely(project['url']); after the sample SAVE begins
ProcessLoop ==
    /\ pc = "process"
    /\ IF proc_i <= Len(sample(all_projects))
       THEN /\ Call(all_projects[proc_i].url, DefaultRetries)
            /\ procLog' = Append(procLog, proc_i)
            /\ pc' = "pdf_fetch"
            /\ UNCHANGED phaseLog
       ELSE /\ pc' = "save"
            /\ phaseLog' = Append(phaseLog, "SAVE")
            /\ UNCHANGED << procLog, fetchVars >>
    /\ UNCHANGED << run, url_i, all_projects, proc_i, bids_data, fs,
                    failedLog, rawLog, saved, saveCalls, overwritten, saveTs >>
    /\ UNCHANGED pureVars

\* mutant: a failed download ends the loop over the sample
DownloadFailed_ends_loop ==
    /\ failedLog' = Append(failedLog, proc_i)
    /\ proc_i' = ProcessLimit + 1
    /\ UNCHANGED << bids_data, fs, rawLog, overwritten, phaseLog, saveCalls >>

\* `if not response: return None`, and `if bid_data:` is false in the caller
DownloadFailed ==
    /\ failedLog' = Append(failedLog, proc_i)
    /\ proc_i' = proc_i + 1
    /\ UNCHANGED << bids_data, fs, rawLog, overwritten, phaseLog, saveCalls >>

\* mutant: save_results is called in the loop, after each record
DownloadSucceeded_and_saved ==
    LET project == all_projects[proc_i]
        pdf_path == raw_path(pdf_filename(project))
        doc == response[1]
    IN  /\ fs' = fs \cup { pdf_path }
        /\ overwritten' = overwritten \cup Replaced({ pdf_path })
        /\ rawLog' = Append(rawLog, [ i |-> proc_i, path |-> pdf_path,
                                      error |-> doc.error ])
        /\ \E bidders \in bidders_found(doc.contractors) :
              bids_data' = Append(bids_data,
                                  analyze(new_bid_data(project), doc, bidders))
        /\ proc_i' = proc_i + 1
        /\ phaseLog' = Append(phaseLog, "SAVE")
        /\ saveCalls' = saveCalls + 1
        /\ UNCHANGED failedLog

\* lines 131-172 and `self.bids_data.append(bid_data)`: the document is
\* written, analysed, and its record appended
DownloadSucceeded ==
    LET project == all_projects[proc_i]
        pdf_path == raw_path(pdf_filename(project))
        doc == response[1]
    IN  /\ fs' = fs \cup { pdf_path }
        /\ overwritten' = overwritten \cup Replaced({ pdf_path })
        /\ rawLog' = Append(rawLog, [ i |-> proc_i, path |-> pdf_path,
                                      error |-> doc.error ])
        /\ \E bidders \in bidders_found(doc.contractors) :
              bids_data' = Append(bids_data,
                                  analyze(new_bid_data(project), doc, bidders))
        /\ proc_i' = proc_i + 1
        /\ UNCHANGED << failedLog, phaseLog, saveCalls >>

\* download_and_analyze_pdf after get_page_safely returned, and the rest of
\* the loop body of run_test_collection
PdfFetched ==
    /\ pc = "pdf_fetch"
    /\ fstate = "returned"
    /\ IF response = NoResponse THEN DownloadFailed ELSE DownloadSucceeded
    /\ pc' = "process"
    /\ FetchReturn
    /\ UNCHANGED << run, url_i, all_projects, procLog, saved, saveTs >>
    /\ UNCHANGED pureVars

\* save_results, with the wall clock read by datetime.now()
SaveResults ==
    /\ pc = "save"
    /\ \E timestamp \in 0 .. MaxTime :
          LET files == files_to_save(bids_data, timestamp)
              paths == { files[k].path : k \in DOMAIN files }
          IN  /\ saved' = files
              /\ fs' = fs \cup paths
              /\ overwritten' = overwritten \cup Replaced(paths)
    /\ saveCalls' = saveCalls + 1
    /\ pc' = "done"
    /\ UNCHANGED << run, url_i, all_projects, proc_i, bids_data,
                    phaseLog, procLog, failedLog, rawLog, saveTs >>
    /\ UNCHANGED << fetchVars, pureVars >>

\* the program is started again, later, on the same output tree
NewRun ==
    /\ pc = "done"
    /\ run < MaxRuns
    /\ run' = run + 1
    /\ pc' = "start"
    /\ url_i' = 1
    /\ all_projects' = << >>
    /\ proc_i' = 1
    /\ bids_data' = << >>
    /\ phaseLog' = << >>
    /\ procLog' = << >>
    /\ failedLog' = << >>
    /\ rawLog' = << >>
    /\ saved' = << >>
    /\ saveCalls' = 0
    /\ overwritten' = { }
    /\ saveTs' = saveTs \cup { saved[k].at : k \in DOMAIN saved }
    /\ UNCHANGED fs
    /\ UNCHANGED << fetchVars, pureVars >>

Next ==
    \/ RunStart
    \/ DiscoverLoop
    \/ FetchLoop
    \/ FetchGet
    \/ PageFetched
    \/ ProcessLoop
    \/ PdfFetched
    \/ SaveResults
    \/ NewRun

Spec ==
    Init /\ [][Next]_vars

----------------------------------------------------------------------------
(* get_page_safely called with any url and any retry count *)

\* a caller passes a url and a retry count
CallAny ==
    /\ fstate = "idle"
    /\ \E u \in { PageUrl, urljoin(PageUrl, "a.pdf") }, r \in 0 .. MaxRetries :
          Call(u, r)
    /\ UNCHANGED << runVars, pureVars >>

\* the caller takes the return value
ReturnAny ==
    /\ fstate = "returned"
    /\ FetchReturn
    /\ UNCHANGED << runVars, pureVars >>

FetchNext ==
    \/ CallAny
    \/ FetchLoop
    \/ FetchGet
    \/ ReturnAny

SpecFetch ==
    Init /\ [][FetchNext]_vars

----------------------------------------------------------------------------
(* The pure functions, each applied to one input drawn from a bounded set *)

\* bound: a link text is made of at most MaxWords fragments
MaxWords ==
    2

\* bound: a project name is made of at most MaxPieces pieces
MaxPieces ==
    3

\* bound: a text has at most MaxMatches organization-name matches
MaxMatches ==
    6

PureInit(inputs) ==
    /\ FreshRun
    /\ run = 1
    /\ fs = { }
    /\ saveTs = { }
    /\ FetchIdle
    /\ input \in inputs
    /\ output = << >>
    /\ step = "ready"

\* fragments of link texts: the keywords in several spellings, the two words
\* that only decide the category, parts that form a keyword only when joined,
\* and words that are no keyword
LinkFragments ==
    { << "S","t","e","e","l" >>,
      << "P","R","E","C","A","S","T" >>,
      << "c","o","n","c","r","e","t","e" >>,
      << "F","o","u","n","d","a","t","i","o","n" >>,
      << "S","T","R","U","C","T","U","R","A","L" >>,
      << "P","a","r","k","i","n","g" >>,
      << "s","t","a","d","i","u","m" >>,
      << "R","e","s","i","d","e","n","c","e" >>,
      << "A","c","a","d","e","m","i","c" >>,
      << "B","i","d"," " >>,
      << "B","i","d" >>,
      << "T","a","b" >>,
      << "P","i","l","e" >>,
      << "C","a","s","t" >>,
      << "P","r","e" >>,
      << "S","t","e" >>,
      << "e","l" >>,
      << " " >>,
      << "L","i","b","r","a","r","y" >> }

LinkTexts ==
    { Concat(ws) : ws \in SeqsUpTo(LinkFragments, MaxWords) }

FilterInit ==
    PureInit(LinkTexts)

\* find_steel_projects on a page whose only PDF link has the text `input`
FilterLink ==
    /\ step = "ready"
    /\ output' = projects_of_page(PageUrl, << [ text |-> input, href |-> "a.pdf" ] >>)
    /\ step' = "done"
    /\ UNCHANGED input
    /\ UNCHANGED << runVars, fetchVars >>

FilterNext ==
    FilterLink

SpecFilter ==
    FilterInit /\ [][FilterNext]_vars

\* pieces of project names: word characters, whitespace of several kinds,
\* punctuation, a hyphen, and a long word that brings a name over 50 characters
NamePieces ==
    { << "B","i","d" >>,
      << "2" >>,
      << "_" >>,
      << " " >>,
      << " ","\t" >>,
      << "-" >>,
      << ":"," " >>,
      << "#" >>,
      << "!" >>,
      [ i \in 1 .. 24 |-> "x" ],
      [ i \in 1 .. 25 |-> IF i = 13 THEN " " ELSE "y" ] }

ProjectNames ==
    { Concat(ps) : ps \in SeqsUpTo(NamePieces, MaxPieces) }

CleanInit ==
    PureInit(ProjectNames)

\* clean_filename(input)
CleanName ==
    /\ step = "ready"
    /\ output' = clean_filename(input)
    /\ step' = "done"
    /\ UNCHANGED input
    /\ UNCHANGED << runVars, fetchVars >>

CleanNext ==
    CleanName

SpecClean ==
    CleanInit /\ [][CleanNext]_vars

\* the strings the organization pattern matches in a text
OrgNames ==
    << "Acme Construction Inc", "Baker Steel LLC", "Cole Precast Corp",
       "Dunn Company", "Eads Concrete Inc", "Ford Foundations LLC" >>

\* the match sequences of texts, up to renaming of the organizations: the
\* names occur for the first time in the order of OrgNames
MatchSeqs ==
    { [ k \in DOMAIN f |-> OrgNames[f[k]] ] :
        f \in { g \in SeqsUpTo(DOMAIN OrgNames, MaxMatches) :
                  \A k \in DOMAIN g :
                     \/ g[k] = 1
                     \/ \E j \in 1 .. (k - 1) : g[j] = g[k] \/ g[j] = g[k] - 1 } }

OrgInit ==
    PureInit(MatchSeqs)

\* lines 164-166 on a text whose organization matches are `input`
FindBidders ==
    /\ step = "ready"
    /\ \E bidders \in bidders_found(input) : output' = bidders
    /\ step' = "done"
    /\ UNCHANGED input
    /\ UNCHANGED << runVars, fetchVars >>

OrgNext ==
    FindBidders

SpecOrg ==
    OrgInit /\ [][OrgNext]_vars

----------------------------------------------------------------------------
(* Claims about get_page_safely *)

Gets ==
    Cardinality({ k \in DOMAIN fetchLog : fetchLog[k] = "get" })

AllAttemptsFailed ==
    fstate = "returned" /\ response = NoResponse

\* C1: a call of get_page_safely in which every GET attempt fails performs
\* exactly `retries` GET attempts, each preceded by its own delay, and then
\* returns None; no attempt is made after the `retries`-th one.
C1_ExactlyRetriesAttempts ==
    /\ \A k \in DOMAIN fetchLog :
          fetchLog[k] = IF k % 2 = 1 THEN "sleep" ELSE "get"
    /\ Gets <= retries
    /\ AllAttemptsFailed => Gets = retries /\ Len(fetchLog) = 2 * retries

C1_Witness ==
    /\ AllAttemptsFailed
    /\ retries = DefaultRetries
    /\ fetchLog = << "sleep", "get", "sleep", "get", "sleep", "get" >>

----------------------------------------------------------------------------
(* Claims about the Link Filter *)

SameLetter(a, b) ==
    \/ a = b
    \/ \E n \in DOMAIN Uppers : { a, b } = { Uppers[n], Lowers[n] }

\* `word` occurs in `text`, upper and lower case letters taken as equal
OccursIgnoringCase(word, text) ==
    \E i \in 0 .. (Len(text) - Len(word)) :
       \A j \in 1 .. Len(word) : SameLetter(text[i + j], word[j])

InclusionKeywords ==
    { << "S","T","E","E","L" >>,
      << "P","R","E","C","A","S","T" >>,
      << "C","O","N","C","R","E","T","E" >>,
      << "F","O","U","N","D","A","T","I","O","N" >>,
      << "S","T","R","U","C","T","U","R","A","L" >>,
      << "P","A","R","K","I","N","G" >>,
      << "S","T","A","D","I","U","M" >>,
      << "R","E","S","I","D","E","N","C","E" >>,
      << "A","C","A","D","E","M","I","C" >>,
      << "B","I","D"," ","T","A","B" >> }

\* the documented priority order, first match wins
CategoryTable ==
    << [ words    |-> { << "S","T","E","E","L" >>,
                        << "S","T","R","U","C","T","U","R","A","L" >> },
         category |-> "structural_steel" ],
       [ words    |-> { << "P","R","E","C","A","S","T" >> },
         category |-> "precast_concrete" ],
       [ words    |-> { << "F","O","U","N","D","A","T","I","O","N" >>,
                        << "P","I","L","E" >> },
         category |-> "deep_foundations" ],
       [ words    |-> { << "C","O","N","C","R","E","T","E" >>,
                        << "C","A","S","T" >> },
         category |-> "cast_in_place_concrete" ] >>

RowMatches(r, text) ==
    \E w \in CategoryTable[r].words : OccursIgnoringCase(w, text)

DocumentedCategory(text) ==
    IF \E r \in DOMAIN CategoryTable : RowMatches(r, text)
    THEN CategoryTable[CHOOSE r \in DOMAIN CategoryTable :
                          /\ RowMatches(r, text)
                          /\ \A q \in 1 .. (r - 1) : ~RowMatches(q, text)].category
    ELSE "mixed_steel"

\* C6: a PDF link becomes a Candidate Link if and only if its visible text
\* contains, case-insensitively, one of the ten keywords; the candidate keeps
\* the text as its name and gets the one category the priority order
\* steel/structural, precast, foundation/pile, concrete/cast, otherwise
\* mixed_steel gives for its text.
C6_FilterAndCategory ==
    step = "done" =>
       /\ (output # << >>) <=>
             (\E w \in InclusionKeywords : OccursIgnoringCase(w, input))
       /\ Len(output) <= 1
       /\ \A k \in DOMAIN output :
             /\ output[k].name = input
             /\ output[k].category = DocumentedCategory(input)

C6_Witness ==
    /\ step = "done"
    /\ input = << "S","t","e","e","l","P","R","E","C","A","S","T" >>
    /\ Len(output) = 1
    /\ output[1].category = "structural_steel"

----------------------------------------------------------------------------
(* Claims about clean_filename *)

LettersDigitsUnderscore ==
    Range(Uppers) \cup Range(Lowers) \cup Digits \cup { "_" }

\* C7 as stated: the result has at most 50 characters, all of them word
\* characters, and cleaning it again changes nothing.
C7_OnlyWordCharacters ==
    step = "done" =>
       /\ Len(output) <= 50
       /\ Range(output) \subseteq LettersDigitsUnderscore
       /\ clean_filename(output) = output

\* C7, amended: the result has at most 50 characters, each a word character
\* or a hyphen (hyphens of the input are kept), and cleaning it again changes
\* nothing.
C7_WordCharactersOrHyphen ==
    step = "done" =>
       /\ Len(output) <= 50
       /\ Range(output) \subseteq LettersDigitsUnderscore \cup { "-" }
       /\ clean_filename(output) = output

C7_Witness ==
    /\ step = "done"
    /\ Len(input) > 50
    /\ Len(output) = 50
    /\ "-" \in Range(output)
    /\ \E k \in DOMAIN input : IsSpace(input[k])

----------------------------------------------------------------------------
(* Claims about the organization list *)

NoDuplicates(list) ==
    \A j, k \in DOMAIN list : list[j] = list[k] => j = k

\* the first n distinct values of a sequence
RECURSIVE FirstDistinct(_, _, _)
FirstDistinct(matches, n, seen) ==
    IF matches = << >> \/ Cardinality(seen) = n THEN seen
    ELSE FirstDistinct(Tail(matches), n, seen \cup { Head(matches) })

\* C9 as stated: the organization list has no string twice, at most 5 entries,
\* and consists of the first 5 distinct matches of the text.
C9_FirstFiveDistinct ==
    step = "done" =>
       /\ NoDuplicates(output)
       /\ Len(output) <= 5
       /\ Range(output) = FirstDistinct(input, 5, { })

\* C9, amended: the organization list has no string twice, at most 5 entries,
\* and consists of the distinct strings among the first 5 matches of the text:
\* a match after the fifth is never listed.
C9_DistinctOfFirstFive ==
    step = "done" =>
       /\ NoDuplicates(output)
       /\ Len(output) <= 5
       /\ \A k \in DOMAIN input :
             k <= 5 => \E j \in DOMAIN output : output[j] = input[k]
       /\ \A j \in DOMAIN output :
             \E k \in DOMAIN input : k <= 5 /\ input[k] = output[j]

C9_Witness ==
    /\ step = "done"
    /\ Len(input) >= 6
    /\ input[1] = input[2]
    /\ \A k \in 1 .. 5 : input[k] # input[6]
    /\ Len(output) = 4

----------------------------------------------------------------------------
(* Claims about a run *)

Sampled ==
    1 .. (IF Len(all_projects) < 3 THEN Len(all_projects) ELSE 3)

RunDone ==
    pc = "done"

KindCount(kind) ==
    Cardinality({ k \in DOMAIN saved : saved[k].kind = kind })

RECURSIVE SumOfCounts(_)
SumOfCounts(categories) ==
    IF DOMAIN categories = { } THEN 0
    ELSE LET c == CHOOSE x \in DOMAIN categories : TRUE
         IN  categories[c]
             + SumOfCounts([ x \in DOMAIN categories \ { c } |-> categories[x] ])

SummaryOfRun ==
    saved[CHOOSE k \in DOMAIN saved : saved[k].kind = "summary"].content

\* C2: nothing is written by save_results before the end of the run; a run
\* that ends with zero records has written no tabular, structured or summary
\* file; a run that ends with N > 0 records has written exactly one of each,
\* three different files, and the summary's total and the sum of its
\* per-category counts are both N.
C2_OutputFiles ==
    /\ ~RunDone => saved = << >>
    /\ (RunDone /\ bids_data = << >>) => saved = << >>
    /\ (RunDone /\ bids_data # << >>) =>
          /\ Len(saved) = 3
          /\ KindCount("csv") = 1 /\ KindCount("json") = 1 /\ KindCount("summary") = 1
          /\ Cardinality({ saved[k].path : k \in DOMAIN saved }) = 3
          /\ { saved[k].path : k \in DOMAIN saved } \subseteq fs
          /\ SummaryOfRun.total_projects = Len(bids_data)
          /\ SumOfCounts(SummaryOfRun.categories) = Len(bids_data)
          /\ \A c \in DOMAIN SummaryOfRun.categories :
                SummaryOfRun.categories[c] =
                   Cardinality({ k \in DOMAIN bids_data : bids_data[k].category = c })

C2_Witness ==
    /\ RunDone
    /\ Len(bids_data) = 3
    /\ Cardinality(DOMAIN SummaryOfRun.categories) = 2

PhaseOrder ==
    << "DISCOVER", "PROCESS", "SAVE" >>

IsPrefix(a, b) ==
    Len(a) <= Len(b) /\ a = SubSeq(b, 1, Len(a))

\* an upper bound on the steps get_page_safely still takes
FetchRank ==
    IF fstate = "idle" THEN 0
    ELSE IF fstate = "returned" THEN 1
    ELSE 2 * (retries - attempt) + (IF fstate = "loop" THEN 3 ELSE 2)

IterationRank ==
    2 * DefaultRetries + 5

ProcessRank ==
    2 + (ProcessLimit + 1 - proc_i) * IterationRank

\* an upper bound on the steps the run still takes: it decreases with every step
RunRank ==
    IF pc = "done" THEN 0
    ELSE IF pc = "save" THEN 1
    ELSE IF pc = "process" THEN ProcessRank
    ELSE IF pc = "pdf_fetch" THEN ProcessRank - IterationRank + 1 + FetchRank
    ELSE LET discover == 3 + ProcessLimit * IterationRank
                         + (Len(test_urls) + 1 - url_i) * IterationRank
         IN  IF pc = "discover" THEN discover
             ELSE IF pc = "page_fetch" THEN discover - IterationRank + 1 + FetchRank
             ELSE discover + 1

\* C3: every run passes through DISCOVER, PROCESS, SAVE in that order, each
\* entered once; no candidate is discovered once processing has begun, no
\* document processed once save_results has begun, save_results is invoked
\* exactly once, and the run ends after SAVE whatever the fetches and the
\* extractions did: until it has ended a step is always possible, and every
\* step brings the end nearer.
C3_PhasesInOrder ==
    /\ [](/\ IsPrefix(phaseLog, PhaseOrder)
          /\ saveCalls = (IF RunDone THEN 1 ELSE 0)
          /\ RunDone => phaseLog = PhaseOrder
          /\ pc \in { "start", "discover", "page_fetch" }
                => phaseLog = SubSeq(PhaseOrder, 1, IF pc = "start" THEN 0 ELSE 1)
          /\ pc \in { "process", "pdf_fetch" } => phaseLog = SubSeq(PhaseOrder, 1, 2)
          /\ ~RunDone => ENABLED Next)
    /\ [][run' = run =>
            /\ RunRank' < RunRank
            /\ Len(phaseLog) >= 2 => all_projects' = all_projects
            /\ Len(phaseLog) >= 3 => /\ bids_data' = bids_data
                                     /\ procLog' = procLog
                                     /\ rawLog' = rawLog]_vars

C3_Witness ==
    /\ RunDone
    /\ phaseLog = PhaseOrder
    /\ failedLog # << >>
    /\ \E k \in DOMAIN rawLog : rawLog[k].error # None

\* C4: when a candidate's document was downloaded and saved but extraction
\* raised an error, a record for that candidate is still appended: it carries
\* the error message, its amount list and its organization list are empty; and
\* the run goes on to the next candidate and to SAVE.
C4_ExtractionErrorRecorded ==
    /\ Len(bids_data) = Len(rawLog)
    /\ \A k \in DOMAIN rawLog :
          /\ rawLog[k].path \in fs
          /\ bids_data[k].project_name = all_projects[rawLog[k].i].name
          /\ bids_data[k].extraction_error = rawLog[k].error
          /\ rawLog[k].error # None =>
                /\ bids_data[k].bid_amounts = << >>
                /\ bids_data[k].bidders_found = << >>
          /\ pc = "process" => rawLog[k].i < proc_i
    /\ pc \in { "start", "discover", "page_fetch", "process", "pdf_fetch", "save", "done" }
    /\ RunDone => procLog = [ k \in Sampled |-> k ] /\ saveCalls = 1

C4_Witness ==
    /\ RunDone
    /\ Len(rawLog) = 3
    /\ rawLog[1].error # None
    /\ bids_data[1].extraction_error = "PdfReadError"
    /\ rawLog[2].error = None
    /\ saved # << >>

\* C5: a candidate whose download failed on all retries gets no record and no
\* raw document, and the Fetcher is called once for it; the run goes on: all
\* sampled candidates are handed to the Document Processor, SAVE happens, and
\* the records are those of the sampled candidates whose download succeeded,
\* in order.
C5_FailedDownloadSkipped ==
    LET failed == Range(failedLog)
        recorded == [ k \in DOMAIN rawLog |-> rawLog[k].i ]
    IN  /\ \A i \in failed :
              /\ \A k \in DOMAIN rawLog : rawLog[k].i # i
              /\ Cardinality({ k \in DOMAIN procLog : procLog[k] = i }) = 1
        /\ Len(bids_data) = Len(recorded)
        /\ \A j, k \in DOMAIN recorded : j < k => recorded[j] < recorded[k]
        /\ Range(recorded) \cap failed = { }
        /\ pc = "process" => Range(recorded) \cup failed = 1 .. (proc_i - 1)
        /\ RunDone =>
              /\ procLog = [ k \in Sampled |-> k ]
              /\ Range(recorded) = Sampled \ failed
              /\ saveCalls = 1
              /\ \A k \in DOMAIN bids_data :
                    bids_data[k].source_url = all_projects[recorded[k]].url

C5_Witness ==
    /\ RunDone
    /\ Len(all_projects) >= 3
    /\ failedLog = << 2 >>
    /\ Len(bids_data) = 2
    /\ saved # << >>

SaveFileOf(p) ==
    { k \in DOMAIN saved : saved[k].path = p }

\* C8 as stated: no write replaces a file that is already in the output tree,
\* except a result file when an earlier run saved in the same second; two
\* processed candidates never write the same raw-document path.
C8_NothingOverwritten ==
    /\ \A p \in overwritten :
          /\ p.dir # "raw_documents"
          /\ \E k \in SaveFileOf(p) : saved[k].at \in saveTs
    /\ \A j, k \in DOMAIN rawLog : rawLog[j].path = rawLog[k].path => j = k

\* C8, amended: a tabular, structured or summary file written by save_results
\* replaces an existing file only when an earlier run saved in the same second.
\* (Raw documents are written to raw_documents/<clean_filename(name)>.pdf and
\* replace whatever is there.)
C8_ResultFilesNotOverwritten ==
    \A p \in overwritten :
       p.dir # "raw_documents" =>
          \E k \in SaveFileOf(p) : saved[k].at \in saveTs

C8_Witness ==
    /\ RunDone
    /\ run = 2
    /\ Len(saved) = 3
    /\ saved[1].at \in saveTs
    /\ { saved[k].path : k \in DOMAIN saved } \subseteq overwritten

\* C10: only the first 3 candidates, in discovery order, are handed to the
\* Document Processor, each once and one at a time; the record list never has
\* more than 3 entries, holds at most one record per processed candidate, in
\* the discovery order of the candidates, each record with the name, URL and
\* category of its candidate.
C10_FirstThreeInOrder ==
    /\ Len(procLog) <= 3
    /\ \A k \in DOMAIN procLog : procLog[k] = k /\ k <= Len(all_projects)
    /\ fstate # "idle" => pc \in { "page_fetch", "pdf_fetch" }
    /\ pc = "pdf_fetch" => proc_i = Len(procLog)
    /\ Len(bids_data) <= 3
    /\ Len(bids_data) = Len(rawLog)
    /\ \A k \in DOMAIN rawLog :
          /\ rawLog[k].i \in Range(procLog)
          /\ \A j \in DOMAIN rawLog : j < k => rawLog[j].i < rawLog[k].i
          /\ k \in DOMAIN bids_data =>
                /\ bids_data[k].project_name = all_projects[rawLog[k].i].name
                /\ bids_data[k].source_url = all_projects[rawLog[k].i].url
                /\ bids_data[k].category = all_projects[rawLog[k].i].category

C10_Witness ==
    /\ RunDone
    /\ Len(all_projects) = 4
    /\ procLog = << 1, 2, 3 >>
    /\ Len(bids_data) = 3

====
